---- MODULE Spec2Model ----
(***************************************************************************)
(* Account signup, signin and session resolution of the auth-form server:  *)
(* the three request handlers of src/src/backend/server.ts over the two    *)
(* SQLite tables of src/src/backend/db.ts.  A handler is a process that    *)
(* takes one step per await; requests in flight interleave at the awaits.  *)
(* Strings that the rules inspect are sequences of one-character strings.  *)
(***************************************************************************)
EXTENDS Integers, Sequences, FiniteSets, TLC

VARIABLES users, sessions, issued, foreignKeys, req, form

vars == <<users, sessions, issued, foreignKeys, req, form>>

(* ------------------------------ bounds --------------------------------- *)

\* number of distinct values uuidv4 can return in a run
MaxTokens == 2

\* number of distinct salts hashPassword can draw
NumSalts == 1

\* request slots: concurrent requests in flight
Reqs == {"r1", "r2"}

Tokens == 1..MaxTokens
NoToken == 0
Salts == 1..NumSalts

(* ------------------------------ inputs --------------------------------- *)

EmailA == <<"a", "@", "b", ".", "c">>
EmailB == <<"d", "@", "e", ".", "f">>
EmailBad == <<"a", "b">>

PasswordA == <<"p", "a", "s", "s", "w", "o", "r", "d">>
PasswordShort == <<"s", "h", "o", "r", "t">>

\* form bodies a client can post to /account/signup: a record has exactly the
\* fields the form carried
SignupBodies ==
    {[email |-> e, password |-> p, agreedToTerms |-> "on"] :
        e \in {EmailA, EmailB, EmailBad}, p \in {PasswordA, PasswordShort}}
    \cup {[email |-> EmailA, password |-> PasswordA, agreedToTerms |-> "off"],
          [email |-> EmailBad, password |-> PasswordShort],
          [email |-> EmailA]}

\* form bodies a client can post to /account/signin
SigninBodies ==
    {[email |-> e, password |-> p] :
        e \in {EmailA, EmailB}, p \in {PasswordA, PasswordShort}}
    \cup {[email |-> EmailA]}

NoBody == [none |-> TRUE]

(* --------------------------- shared rules ------------------------------ *)

MinPasswordLength == 8

PasswordMessage == "Password must be at least 8 characters long."
UsernameMessage == "Must use email format: name@domain.tld"

\* \S of the regular expression: any character that is not white space
NonSpace(c) == c \notin {" ", "\t", "\n"}

\* /\S+@\S+\.\S+/.test(s): unanchored; some "@" at position a and some "." at
\* position d with a non-space before the "@", a non-empty run of non-spaces
\* between them and a non-space after the "."
MatchesEmailShape(s) ==
    \E a \in 1..Len(s), d \in 1..Len(s) :
        /\ s[a] = "@"
        /\ s[d] = "."
        /\ a >= 2
        /\ d >= a + 2
        /\ d < Len(s)
        /\ NonSpace(s[a - 1])
        /\ \A i \in (a + 1)..(d - 1) : NonSpace(s[i])
        /\ NonSpace(s[d + 1])

checkUsername(userName) ==
    IF ~MatchesEmailShape(userName) THEN <<UsernameMessage>> ELSE <<>>

checkComplexity(plainPassword) ==
    IF Len(plainPassword) < MinPasswordLength THEN <<PasswordMessage>> ELSE <<>>

\* Array.prototype.join("<br>")
RECURSIVE JoinBr(_)
JoinBr(msgs) ==
    IF Len(msgs) = 0 THEN ""
    ELSE IF Len(msgs) = 1 THEN msgs[1]
    ELSE msgs[1] \o "<br>" \o JoinBr(Tail(msgs))

(* --------------------------- password hasher --------------------------- *)

\* the opaque string hashPassword produces: the salt and the salted digest
HashString(salt, plain) == [salt |-> salt, digest |-> <<salt, plain>>]

\* new HashedPassword(s): the wrapper whose field hashed holds the string
HashedPassword(s) == [hashed |-> s]

hashPassword(plain, salt) == HashedPassword(HashString(salt, plain))

comparePassword(plain, hp) == hp.hashed.digest = <<hp.hashed.salt, plain>>

(* ------------------------------ replies -------------------------------- *)

\* a reply: the flash cookie starts empty on every request (the onRequest hook)
\* and a handler may overwrite it; session is the SESSION_ID cookie it sets
Redirect(location, flash, session) ==
    [status |-> "redirect", location |-> location, flash |-> flash,
     session |-> session, email |-> <<>>]

Rendered(email) ==
    [status |-> "html", location |-> "welcome.njk", flash |-> "",
     session |-> NoToken, email |-> email]

\* an error thrown out of a handler: the framework answers 500
ServerError ==
    [status |-> "error", location |-> "", flash |-> "", session |-> NoToken, email |-> <<>>]

NoReply ==
    [status |-> "none", location |-> "", flash |-> "", session |-> NoToken, email |-> <<>>]

ProcessingError == Redirect("/signup", "There was an error processing your request.", NoToken)
TermsRejected == Redirect("/signup", "You must agree to the terms to singn up.", NoToken)
\* the catch block of the signup handler
CopiedCatch == Redirect("/signup", "There was an error processing your request.", NoToken)

AccountExists == Redirect("/signup", "Account already exists.", NoToken)

\* the three places of the signin handler that reject: lookup miss, password
\* mismatch, catch block
UnknownEmail == Redirect("/signin", "No account with this email.", NoToken)

LookupMiss == Redirect("/signin", "Invalid login credentials.", NoToken)

Mismatch == Redirect("/signin", "Invalid login credentials.", NoToken)

SigninCaught == Redirect("/signin", "Invalid login credentials.", NoToken)

PleaseSignIn == Redirect("/signin", "Please sign in to continue.", NoToken)
SessionExpired ==
    Redirect("/signin", "Your session has expired. Please sign in to continue.", NoToken)
Welcome(sessionId) == Redirect("/welcome", "", sessionId)

(* ------------------------------ tables --------------------------------- *)

NoUser == [none |-> TRUE]

SetMax(S) == CHOOSE m \in S : \A x \in S : x <= m

\* id INTEGER PRIMARY KEY: the row id the table assigns to an insert
NextId == IF users = {} THEN 1 ELSE SetMax({u.id : u \in users}) + 1

EmailNeverTaken(email) == FALSE

\* email TEXT UNIQUE NOT NULL
EmailTaken(email) == \E u \in users : u.email = email

\* SELECT * FROM users WHERE email = ?
UsersByEmail(email) == {u \in users : u.email = email}

\* SELECT * FROM users WHERE id = ?
UsersById(id) == {u \in users : u.id = id}

\* the User that sqliteUserRepository.get builds from a row
UserOf(row) ==
    [id |-> row.id, email |-> row.email,
     hashedPassword |-> HashedPassword(row.hashedPassword),
     agreeToTerms |-> row.agreeToTerms]

\* the row that sqliteUserRepository.create inserts for a user
UserRow(id, user) ==
    [id |-> id, email |-> user.email,
     hashedPassword |-> user.hashedPassword.hashed,
     agreeToTerms |-> user.agreeToTerms]

\* SELECT user_id FROM sessions WHERE session_id = ?
SessionsById(sessionId) == {s \in sessions : s.session_id = sessionId}

SessionInsertNoKey(sessionId, userId) ==
    foreignKeys /\ UsersById(userId) = {}

\* session_id UUID PRIMARY KEY, and FOREIGN KEY(user_id) REFERENCES users(id)
\* where the connection enforces foreign keys
SessionInsertFails(sessionId, userId) ==
    \/ SessionsById(sessionId) # {}
    \/ foreignKeys /\ UsersById(userId) = {}

\* SqlliteSession.get: the token's row, then the account of its user_id
SessionGet(sessionId) ==
    IF SessionsById(sessionId) = {} THEN NoUser
    ELSE LET userId == (CHOOSE s \in SessionsById(sessionId) : TRUE).user_id
         IN  IF UsersById(userId) = {} THEN NoUser
             ELSE UserOf(CHOOSE u \in UsersById(userId) : TRUE)

(* ------------------------------ client form ---------------------------- *)

\* longest values typed into the email and the password field
MaxEmailLen == 5
MaxPasswordLen == 8

\* the keys typed into the two fields
EmailKeys == {"a", "@", "."}
PasswordKeys == {"p"}

\* new FieldError(): no entry
NoErrors == [id \in {} |-> ""]

\* errors.set(id, field, label, message): the entry of id is the message
FieldErrorSet(errors, id, message) ==
    [k \in DOMAIN errors \cup {id} |-> IF k = id THEN message ELSE errors[k]]

\* errors.remove(id, field, label): id has no entry
FieldErrorRemove(errors, id) ==
    [k \in DOMAIN errors \ {id} |-> errors[k]]

\* errors.isEmpty()
FieldErrorIsEmpty(errors) == DOMAIN errors = {}

\* the page before its script has run
NotLoaded ==
    [loaded |-> FALSE, email |-> <<>>, password |-> <<>>, errors |-> NoErrors,
     classList |-> {}]

updateSubmitBtnErrorsOnly(errors, emailValue, passwordValue, classList) ==
    IF FieldErrorIsEmpty(errors)
    THEN classList \ {"btn-disabled"}
    ELSE classList \cup {"btn-disabled"}

\* updateSubmitBtn(): the class list of the submit button afterwards
updateSubmitBtn(errors, emailValue, passwordValue, classList) ==
    IF FieldErrorIsEmpty(errors) /\ Len(emailValue) > 0 /\ Len(passwordValue) > 0
    THEN classList \ {"btn-disabled"}
    ELSE classList \cup {"btn-disabled"}

\* the values of a field after one edit of value: a key appended or the last
\* character deleted
Edits(value, keys, maxLen) ==
    {Append(value, k) : k \in IF Len(value) < maxLen THEN keys ELSE {}}
    \cup (IF Len(value) > 0 THEN {SubSeq(value, 1, Len(value) - 1)} ELSE {})

\* the script runs on the rendered page: both fields empty, no error, the
\* submit button with the classes the template gave it
FormLoad ==
    /\ ~form.loaded
    /\ \E classes \in {{}, {"btn-disabled"}} :
        form' = [NotLoaded EXCEPT !.loaded = TRUE, !.classList = classes]
    /\ UNCHANGED <<users, sessions, issued, foreignKeys, req>>

\* the "input" listener of the email field, after an edit of the field
EmailInput ==
    /\ form.loaded
    /\ \E value \in Edits(form.email, EmailKeys, MaxEmailLen) :
        LET usernameFailures == checkUsername(value)
            errors == IF Len(usernameFailures) > 0
                      THEN FieldErrorSet(form.errors, "invalid-email",
                                         JoinBr(usernameFailures))
                      ELSE FieldErrorRemove(form.errors, "invalid-email")
        IN  form' = [form EXCEPT !.email = value, !.errors = errors,
                        !.classList = updateSubmitBtn(errors, value, form.password, @)]
    /\ UNCHANGED <<users, sessions, issued, foreignKeys, req>>

\* the "input" listener of the password field, after an edit of the field
PasswordInput ==
    /\ form.loaded
    /\ \E value \in Edits(form.password, PasswordKeys, MaxPasswordLen) :
        LET passwordFailures == checkComplexity(value)
            errors == IF Len(passwordFailures) > 0
                      THEN FieldErrorSet(form.errors, "invalid-password",
                                         JoinBr(passwordFailures))
                      ELSE FieldErrorRemove(form.errors, "invalid-password")
        IN  form' = [form EXCEPT !.password = value, !.errors = errors,
                        !.classList = updateSubmitBtn(errors, form.email, value, @)]
    /\ UNCHANGED <<users, sessions, issued, foreignKeys, req>>

(* ------------------------------ requests ------------------------------- *)

IdleReq ==
    [kind |-> "idle", pc |-> "idle", body |-> NoBody, cookie |-> NoToken,
     hashed |-> NoUser, uid |-> 0, user |-> NoUser, reply |-> NoReply,
     ops |-> <<>>, fault |-> FALSE, registered |-> FALSE]

Set(r, rec) == req' = [req EXCEPT ![r] = rec]

\* the handler returns: its locals are gone, the reply stays
Done(r, reply, op) ==
    Set(r, [req[r] EXCEPT !.pc = "done", !.reply = reply, !.ops = Append(@, op),
                   !.hashed = NoUser, !.uid = 0, !.user = NoUser])

Step(r, pc, op) ==
    Set(r, [req[r] EXCEPT !.pc = pc, !.ops = Append(@, op)])

At(r, kind, pc) == req[r].kind = kind /\ req[r].pc = pc

\* the requests in flight that will ask uuidv4 for a token
InFlight == {r \in Reqs : req[r].kind \in {"signup", "signin"} /\ req[r].pc # "done"}

\* a request that goes on to the store starts only while a token is left for it
TokenLeft == Cardinality(InFlight) < Cardinality(Tokens \ issued)

Init ==
    /\ users = {}
    /\ sessions = {}
    /\ issued = {}
    /\ foreignKeys \in BOOLEAN
    /\ req = [r \in Reqs |-> IdleReq]
    /\ form = NotLoaded

(* ------------------------- POST /account/signup ------------------------ *)

\* accountCreateRequestSchema.parse / accountLoginRequestSchema.parse
ParseOk(body) == {"email", "password"} \subseteq DOMAIN body

\* history: the body names an account of the table with its password
Registered(body) ==
    /\ ParseOk(body)
    /\ \E u \in users :
        u.email = body.email /\ comparePassword(body.password, UserOf(u).hashedPassword)

SignupChecksNoComplexity(body) ==
    IF ~ParseOk(body) THEN [reply |-> ProcessingError, ops |-> <<"parse">>]
    ELSE IF ~("agreedToTerms" \in DOMAIN body /\ body.agreedToTerms = "on")
    THEN [reply |-> TermsRejected, ops |-> <<"parse", "terms">>]
    ELSE IF Len(checkUsername(body.email)) > 0
    THEN [reply |-> Redirect("/signup", JoinBr(checkUsername(body.email)), NoToken),
          ops |-> <<"parse", "terms", "checkUsername">>]
    ELSE [reply |-> NoReply,
          ops |-> <<"parse", "terms", "checkUsername", "checkComplexity">>]

SignupChecksNoTerms(body) ==
    IF ~ParseOk(body) THEN [reply |-> ProcessingError, ops |-> <<"parse">>]
    ELSE IF Len(checkUsername(body.email)) > 0
    THEN [reply |-> Redirect("/signup", JoinBr(checkUsername(body.email)), NoToken),
          ops |-> <<"parse", "terms", "checkUsername">>]
    ELSE IF Len(checkComplexity(body.password)) > 0
    THEN [reply |-> Redirect("/signup", JoinBr(checkComplexity(body.password)), NoToken),
          ops |-> <<"parse", "terms", "checkUsername", "checkComplexity">>]
    ELSE [reply |-> NoReply,
          ops |-> <<"parse", "terms", "checkUsername", "checkComplexity">>]

\* the checks of the handler before it touches the store: the reply of the
\* first check that fails, or NoReply when all pass, with the checks that ran
SignupChecks(body) ==
    IF ~ParseOk(body) THEN [reply |-> ProcessingError, ops |-> <<"parse">>]
    ELSE IF ~("agreedToTerms" \in DOMAIN body /\ body.agreedToTerms = "on")
    THEN [reply |-> TermsRejected, ops |-> <<"parse", "terms">>]
    ELSE IF Len(checkUsername(body.email)) > 0
    THEN [reply |-> Redirect("/signup", JoinBr(checkUsername(body.email)), NoToken),
          ops |-> <<"parse", "terms", "checkUsername">>]
    ELSE IF Len(checkComplexity(body.password)) > 0
    THEN [reply |-> Redirect("/signup", JoinBr(checkComplexity(body.password)), NoToken),
          ops |-> <<"parse", "terms", "checkUsername", "checkComplexity">>]
    ELSE [reply |-> NoReply,
          ops |-> <<"parse", "terms", "checkUsername", "checkComplexity">>]

SignupReceive(r) ==
    /\ req[r].kind = "idle"
    /\ \E body \in SignupBodies :
        LET c == SignupChecks(body)
        IN  /\ c.reply = NoReply => TokenLeft
            /\ Set(r, [IdleReq EXCEPT !.kind = "signup", !.body = body,
                        !.pc = IF c.reply = NoReply THEN "connect" ELSE "done",
                        !.reply = c.reply, !.ops = c.ops])
    /\ UNCHANGED <<users, sessions, issued, foreignKeys, form>>

SignupConnect(r) ==
    /\ At(r, "signup", "connect")
    /\ Step(r, "hash", "connect")
    /\ UNCHANGED <<users, sessions, issued, foreignKeys, form>>

SignupHash(r) ==
    /\ At(r, "signup", "hash")
    /\ \E salt \in Salts :
        Set(r, [req[r] EXCEPT !.pc = "create", !.ops = Append(@, "hashPassword"),
                       !.hashed = hashPassword(req[r].body.password, salt)])
    /\ UNCHANGED <<users, sessions, issued, foreignKeys, form>>

\* newUser of the handler
NewUser(r) ==
    [id |-> 0, email |-> req[r].body.email, hashedPassword |-> req[r].hashed,
     agreeToTerms |-> TRUE]

SignupCreateUserReplace(r) ==
    /\ At(r, "signup", "create")
    /\ users' = (users \ UsersByEmail(NewUser(r).email))
                    \cup {UserRow(NextId, NewUser(r))}
    /\ Set(r, [req[r] EXCEPT !.pc = "session", !.ops = Append(@, "users.create"),
                   !.user = [NewUser(r) EXCEPT !.id = NextId]])
    /\ UNCHANGED <<sessions, issued, foreignKeys, form>>

SignupCreateUser(r) ==
    /\ At(r, "signup", "create")
    /\ IF EmailTaken(NewUser(r).email)
       THEN /\ Done(r, AccountExists, "users.create")
            /\ UNCHANGED users
       ELSE /\ users' = users \cup {UserRow(NextId, NewUser(r))}
            /\ Set(r, [req[r] EXCEPT !.pc = "session", !.ops = Append(@, "users.create"),
                           !.user = [NewUser(r) EXCEPT !.id = NextId]])
    /\ UNCHANGED <<sessions, issued, foreignKeys, form>>

SessionCreateSingle(r, userId, caught) ==
    /\ \E sessionId \in Tokens \ issued :
        /\ issued' = issued \cup {sessionId}
        /\ IF SessionInsertFails(sessionId, userId)
           THEN /\ Done(r, caught, "sessions.create")
                /\ UNCHANGED sessions
           ELSE /\ sessions' = {s \in sessions : s.user_id # userId}
                                \cup {[session_id |-> sessionId, user_id |-> userId]}
                /\ Done(r, Welcome(sessionId), "sessions.create")
    /\ UNCHANGED <<users, foreignKeys, form>>

\* SqlliteSession.create(userId) called from a handler whose catch block
\* answers `caught`
SessionCreate(r, userId, caught) ==
    /\ \E sessionId \in Tokens \ issued :
        /\ issued' = issued \cup {sessionId}
        /\ IF SessionInsertFails(sessionId, userId)
           THEN /\ Done(r, caught, "sessions.create")
                /\ UNCHANGED sessions
           ELSE /\ sessions' = sessions \cup {[session_id |-> sessionId, user_id |-> userId]}
                /\ Done(r, Welcome(sessionId), "sessions.create")
    /\ UNCHANGED <<users, foreignKeys, form>>

\* SqlliteSession.create when uuidv4 returns a value it has returned before:
\* the INSERT runs with that value
SessionCreateRepeated(r, userId, caught) ==
    /\ \E sessionId \in issued :
        IF SessionInsertFails(sessionId, userId)
        THEN /\ Done(r, caught, "sessions.create")
             /\ UNCHANGED sessions
        ELSE /\ sessions' = sessions \cup {[session_id |-> sessionId, user_id |-> userId]}
             /\ Done(r, Welcome(sessionId), "sessions.create")
    /\ UNCHANGED <<users, issued, foreignKeys, form>>

SignupCreateSession(r) ==
    /\ At(r, "signup", "session")
    /\ SessionCreate(r, req[r].user.id, AccountExists)

(* ------------------------- POST /account/signin ------------------------ *)

SigninReceive(r) ==
    /\ req[r].kind = "idle"
    /\ \E body \in SigninBodies :
        /\ ParseOk(body) => TokenLeft
        /\ Set(r, [IdleReq EXCEPT !.kind = "signin", !.body = body,
                    !.pc = IF ParseOk(body) THEN "connect" ELSE "done",
                    !.reply = IF ParseOk(body) THEN NoReply ELSE ProcessingError,
                    !.ops = <<"parse">>, !.registered = Registered(body)])
    /\ UNCHANGED <<users, sessions, issued, foreignKeys, form>>

SigninConnect(r) ==
    /\ At(r, "signin", "connect")
    /\ Step(r, "findByEmail", "connect")
    /\ UNCHANGED <<users, sessions, issued, foreignKeys, form>>

\* findByEmail, first await: the row with the email, or undefined
SigninFindByEmail(r) ==
    /\ At(r, "signin", "findByEmail")
    /\ IF UsersByEmail(req[r].body.email) = {}
       THEN Done(r, LookupMiss, "users.findByEmail")
       ELSE \E row \in UsersByEmail(req[r].body.email) :
                Set(r, [req[r] EXCEPT !.pc = "get", !.uid = row.id,
                               !.ops = Append(@, "users.findByEmail")])
    /\ UNCHANGED <<users, sessions, issued, foreignKeys, form>>

\* findByEmail, second await: this.get(userId.id)
SigninGetUser(r) ==
    /\ At(r, "signin", "get")
    /\ IF UsersById(req[r].uid) = {}
       THEN Done(r, LookupMiss, "users.get")
       ELSE \E row \in UsersById(req[r].uid) :
                Set(r, [req[r] EXCEPT !.pc = "compare", !.user = UserOf(row),
                               !.ops = Append(@, "users.get")])
    /\ UNCHANGED <<users, sessions, issued, foreignKeys, form>>

SigninCompareInverted(r) ==
    /\ At(r, "signin", "compare")
    /\ IF comparePassword(req[r].body.password, req[r].user.hashedPassword)
       THEN Done(r, Mismatch, "comparePassword")
       ELSE Step(r, "session", "comparePassword")
    /\ UNCHANGED <<users, sessions, issued, foreignKeys, form>>

SigninCompareSkipped(r) ==
    /\ At(r, "signin", "compare")
    /\ Step(r, "session", "comparePassword")
    /\ UNCHANGED <<users, sessions, issued, foreignKeys, form>>

SigninCompare(r) ==
    /\ At(r, "signin", "compare")
    /\ IF ~comparePassword(req[r].body.password, req[r].user.hashedPassword)
       THEN Done(r, Mismatch, "comparePassword")
       ELSE Step(r, "session", "comparePassword")
    /\ UNCHANGED <<users, sessions, issued, foreignKeys, form>>

SigninCreateSession(r) ==
    /\ At(r, "signin", "session")
    /\ SessionCreate(r, req[r].user.id, SigninCaught)

\* a handler's sessions.create draws a repeated uuid
UuidRepeats(r) ==
    \/ /\ At(r, "signup", "session")
       /\ SessionCreateRepeated(r, req[r].user.id, AccountExists)
    \/ /\ At(r, "signin", "session")
       /\ SessionCreateRepeated(r, req[r].user.id, SigninCaught)

(* ----------------------------- GET /welcome ---------------------------- *)

\* the client may send any SESSION_ID cookie, or none
WelcomeReceive(r) ==
    /\ req[r].kind = "idle"
    /\ \E sessionId \in Tokens \cup {NoToken} :
        Set(r, [IdleReq EXCEPT !.kind = "welcome", !.cookie = sessionId,
                    !.pc = IF sessionId = NoToken THEN "done" ELSE "connect",
                    !.reply = IF sessionId = NoToken THEN PleaseSignIn ELSE NoReply,
                    !.ops = <<"readSessionCookie">>])
    /\ UNCHANGED <<users, sessions, issued, foreignKeys, form>>

WelcomeConnect(r) ==
    /\ At(r, "welcome", "connect")
    /\ Step(r, "getSession", "connect")
    /\ UNCHANGED <<users, sessions, issued, foreignKeys, form>>

\* SqlliteSession.get, first await: the row of the token, or undefined
WelcomeGetSession(r) ==
    /\ At(r, "welcome", "getSession")
    /\ IF SessionsById(req[r].cookie) = {}
       THEN Done(r, SessionExpired, "sessions.get")
       ELSE \E row \in SessionsById(req[r].cookie) :
                Set(r, [req[r] EXCEPT !.pc = "getUser", !.uid = row.user_id,
                               !.ops = Append(@, "sessions.get")])
    /\ UNCHANGED <<users, sessions, issued, foreignKeys, form>>

WelcomeGetUserUnchecked(r) ==
    /\ At(r, "welcome", "getUser")
    /\ IF UsersById(req[r].uid) = {}
       THEN Done(r, Rendered(<<>>), "users.get")
       ELSE \E row \in UsersById(req[r].uid) :
                Done(r, Rendered(UserOf(row).email), "users.get")
    /\ UNCHANGED <<users, sessions, issued, foreignKeys, form>>

\* SqlliteSession.get, second await: users.get(userId.user_id)
WelcomeGetUser(r) ==
    /\ At(r, "welcome", "getUser")
    /\ IF UsersById(req[r].uid) = {}
       THEN Done(r, SessionExpired, "users.get")
       ELSE \E row \in UsersById(req[r].uid) :
                Done(r, Rendered(UserOf(row).email), "users.get")
    /\ UNCHANGED <<users, sessions, issued, foreignKeys, form>>

(* ------------------------------ environment ---------------------------- *)

\* the reply is sent and the slot serves the next request
Finish(r) ==
    /\ req[r].pc = "done"
    /\ Set(r, IdleReq)
    /\ UNCHANGED <<users, sessions, issued, foreignKeys, form>>

\* ON DELETE CASCADE: the sessions that remain when the account is deleted
SessionsAfterDelete(userId) ==
    IF foreignKeys THEN {s \in sessions : s.user_id # userId} ELSE sessions

\* an account row is deleted in the database (no handler does it)
DeleteAccount ==
    /\ \E u \in users :
        /\ users' = users \ {u}
        /\ sessions' = SessionsAfterDelete(u.id)
    /\ UNCHANGED <<issued, foreignKeys, req, form>>

\* the awaits of a handler that sit inside its try block
InTry(r) ==
    \/ req[r].kind = "signup" /\ req[r].pc \in {"create", "session"}
    \/ req[r].kind = "signin" /\ req[r].pc \in {"findByEmail", "get", "session"}

\* the awaits of a handler that call the database
AtStore(r) ==
    \/ InTry(r)
    \/ req[r].kind \in {"signup", "signin", "welcome"} /\ req[r].pc = "connect"
    \/ req[r].kind = "welcome" /\ req[r].pc \in {"getSession", "getUser"}

\* the handler's catch block, if the await is inside its try
Caught(r) ==
    IF ~InTry(r) THEN ServerError
    ELSE IF req[r].kind = "signup" THEN AccountExists
    ELSE SigninCaught

\* the database call the request is waiting on throws (store unavailable)
StoreFault(r) ==
    /\ AtStore(r)
    /\ Set(r, [req[r] EXCEPT !.pc = "done", !.reply = Caught(r), !.fault = TRUE,
                   !.ops = Append(@, "throw"),
                   !.hashed = NoUser, !.uid = 0, !.user = NoUser])
    /\ UNCHANGED <<users, sessions, issued, foreignKeys, form>>

(* ---------------------------- specifications --------------------------- *)

Handlers ==
    \/ \E r \in Reqs : SignupReceive(r)
    \/ \E r \in Reqs : SignupConnect(r)
    \/ \E r \in Reqs : SignupHash(r)
    \/ \E r \in Reqs : SignupCreateUser(r)
    \/ \E r \in Reqs : SignupCreateSession(r)
    \/ \E r \in Reqs : SigninReceive(r)
    \/ \E r \in Reqs : SigninConnect(r)
    \/ \E r \in Reqs : SigninFindByEmail(r)
    \/ \E r \in Reqs : SigninGetUser(r)
    \/ \E r \in Reqs : SigninCompare(r)
    \/ \E r \in Reqs : SigninCreateSession(r)
    \/ \E r \in Reqs : WelcomeReceive(r)
    \/ \E r \in Reqs : WelcomeConnect(r)
    \/ \E r \in Reqs : WelcomeGetSession(r)
    \/ \E r \in Reqs : WelcomeGetUser(r)
    \/ \E r \in Reqs : Finish(r)

Next == Handlers

\* the handlers alone: the server with a database that answers every call
Spec == Init /\ [][Next]_vars

NextFault == Handlers \/ \E r \in Reqs : StoreFault(r)

\* the handlers with a database whose calls may throw
FaultSpec == Init /\ [][NextFault]_vars

NextDelete == Handlers \/ DeleteAccount

\* the handlers with account rows deleted in the database behind them
DeleteSpec == Init /\ [][NextDelete]_vars

NextCollide == Handlers \/ \E r \in Reqs : UuidRepeats(r)

\* the handlers with a uuidv4 that may repeat a value
CollideSpec == Init /\ [][NextCollide]_vars

NextForm == FormLoad \/ EmailInput \/ PasswordInput

\* the client form alone: the page loads and the user edits the two fields
FormSpec == Init /\ [][NextForm]_vars

(* -------------------------------- claims ------------------------------- *)

\* request r takes a step
Acts(r) == req'[r] # req[r]

Succeeded(r) ==
    /\ req[r].pc = "done"
    /\ req[r].reply.status = "redirect"
    /\ req[r].reply.location = "/welcome"

LastOp(r) == req[r].ops[Len(req[r].ops)]

\* C1: a signup whose INSERT meets an account with the same email answers the
\* redirect to /signup with the flash "Account already exists.", sets no
\* session cookie and adds no row to either table
C1_DuplicateSignupRejected ==
    [][\A r \in Reqs :
        (At(r, "signup", "create") /\ UsersByEmail(req[r].body.email) # {} /\ Acts(r))
        => /\ req'[r].pc = "done"
           /\ req'[r].reply.status = "redirect"
           /\ req'[r].reply.location = "/signup"
           /\ req'[r].reply.flash = "Account already exists."
           /\ req'[r].reply.session = NoToken
           /\ sessions' = sessions
           /\ users' = users]_vars

\* a signup was turned away at the INSERT while the account it collided with
\* is in the table
C1_Witness ==
    \E r \in Reqs :
        /\ req[r].kind = "signup"
        /\ req[r].pc = "done"
        /\ LastOp(r) = "users.create"
        /\ req[r].reply.flash = "Account already exists."
        /\ UsersByEmail(req[r].body.email) # {}

\* C2: a successful signup's token resolves to the account with the signup's
\* email and password, and a signin that arrives when that account exists and
\* presents the same email and password ends with a redirect to /welcome whose
\* token resolves to that same account
AccountOf(body, token) ==
    /\ token # NoToken
    /\ SessionGet(token) # NoUser
    /\ SessionGet(token).email = body.email
    /\ comparePassword(body.password, SessionGet(token).hashedPassword)
    /\ UsersByEmail(body.email) = UsersById(SessionGet(token).id)

C2_SignupThenSignin ==
    /\ \A r \in Reqs :
        (req[r].kind = "signup" /\ Succeeded(r))
        => AccountOf(req[r].body, req[r].reply.session)
    /\ \A r \in Reqs :
        (req[r].kind = "signin" /\ req[r].pc = "done" /\ req[r].registered)
        => Succeeded(r) /\ AccountOf(req[r].body, req[r].reply.session)

\* a signup and a later signin with the same credentials have both succeeded
\* and their two tokens resolve to one account
C2_Witness ==
    \E r1, r2 \in Reqs :
        /\ req[r1].kind = "signup" /\ Succeeded(r1)
        /\ req[r2].kind = "signin" /\ Succeeded(r2) /\ req[r2].registered
        /\ req[r1].body.email = req[r2].body.email
        /\ req[r1].body.password = req[r2].body.password
        /\ req[r1].reply.session # req[r2].reply.session
        /\ SessionGet(req[r1].reply.session) = SessionGet(req[r2].reply.session)
        /\ SessionGet(req[r2].reply.session) # NoUser

\* the signin handler returns from its lookup or from its comparison
SigninRejects(r) ==
    /\ req[r].kind = "signin"
    /\ req[r].pc \in {"findByEmail", "get", "compare"}
    /\ req'[r].pc = "done"

\* C3: a signin turned away because the email is not registered and one turned
\* away because the password is wrong get the same reply, the redirect to
\* /signin with the flash "Invalid login credentials.", without a session cookie
\* and without a row added to the session table
C3_SameRejection ==
    [][\A r \in Reqs :
        SigninRejects(r)
        => /\ req'[r].reply =
                [status |-> "redirect", location |-> "/signin",
                 flash |-> "Invalid login credentials.", session |-> NoToken,
                 email |-> <<>>]
           /\ sessions' = sessions
           /\ issued' = issued]_vars

\* one signin was turned away at the lookup, another at the comparison, and the
\* two replies are equal
C3_Witness ==
    \E r1, r2 \in Reqs :
        /\ req[r1].kind = "signin" /\ req[r1].pc = "done"
        /\ req[r2].kind = "signin" /\ req[r2].pc = "done"
        /\ LastOp(r1) = "users.findByEmail"
        /\ LastOp(r2) = "comparePassword"
        /\ req[r1].reply = req[r2].reply
        /\ req[r1].reply.flash = "Invalid login credentials."

\* the signup request has created its account
Created(r) ==
    /\ req[r].kind = "signup"
    /\ req[r].pc = "session" \/ Succeeded(r)

\* C4: no two rows of the users table hold the same email, and of two signups
\* with the same email at most one has created an account, whatever the order
\* of their steps
C4_OneAccountPerEmail ==
    /\ \A u1, u2 \in users : u1.email = u2.email => u1 = u2
    /\ \A r1, r2 \in Reqs :
        (r1 # r2 /\ Created(r1) /\ Created(r2))
        => req[r1].body.email # req[r2].body.email

\* two signups with the same email were in flight together: one has created
\* the account and still waits for its session, the other was turned away
C4_Witness ==
    \E r1, r2 \in Reqs :
        /\ r1 # r2
        /\ req[r1].kind = "signup" /\ req[r1].pc = "session"
        /\ req[r2].kind = "signup" /\ req[r2].pc = "done"
        /\ req[r1].body.email = req[r2].body.email
        /\ LastOp(r2) = "users.create"
        /\ req[r2].reply.flash = "Account already exists."

\* C5: a request whose database call threw is never answered with one of the
\* domain rejections "Account already exists." or "Invalid login credentials."
C5_InfrastructureNotMasked ==
    \A r \in Reqs :
        (req[r].pc = "done" /\ req[r].fault)
        => req[r].reply.flash \notin
             {"Account already exists.", "Invalid login credentials."}

\* the welcome handler returns from one of the two lookups of SqlliteSession.get
WelcomeCompletes(r) ==
    /\ req[r].kind = "welcome"
    /\ req[r].pc \in {"getSession", "getUser"}
    /\ req'[r].pc = "done"

\* the users rows the second lookup of SqlliteSession.get can find for r
FoundAccount(r) == IF req[r].pc = "getUser" THEN UsersById(req[r].uid) ELSE {}

C7_AllViolationsReported ==
    \A r \in Reqs :
        (/\ req[r].kind = "signup"
         /\ req[r].pc = "done"
         /\ ParseOk(req[r].body)
         /\ "agreedToTerms" \in DOMAIN req[r].body
         /\ req[r].body.agreedToTerms = "on"
         /\ ~MatchesEmailShape(req[r].body.email)
         /\ Len(req[r].body.password) < MinPasswordLength)
        => req[r].reply.flash \in
             {JoinBr(<<UsernameMessage, PasswordMessage>>),
              JoinBr(<<PasswordMessage, UsernameMessage>>)}

\* C8: every row of the sessions table names an account of the users table,
\* also after an account was deleted
C8_SessionsReferenceAccounts ==
    \A s \in sessions : UsersById(s.user_id) # {}

SignupOrder ==
    <<"parse", "terms", "checkUsername", "checkComplexity", "connect",
      "hashPassword", "users.create", "sessions.create">>

IsPrefix(a, b) == Len(a) <= Len(b) /\ \A i \in 1..Len(a) : a[i] = b[i]

\* the body passes every check of the signup handler
ValidSignup(body) ==
    /\ ParseOk(body)
    /\ "agreedToTerms" \in DOMAIN body
    /\ body.agreedToTerms = "on"
    /\ MatchesEmailShape(body.email)
    /\ Len(body.password) >= MinPasswordLength

C9_Position(r) ==
    /\ IsPrefix(req[r].ops, SignupOrder)
    /\ ~ValidSignup(req[r].body)
        => /\ req[r].pc = "done"
           /\ Len(req[r].ops) <= 4
           /\ req[r].reply.location = "/signup"
           /\ req[r].reply.session = NoToken
    /\ req[r].pc \in {"create", "session"}
        => comparePassword(req[r].body.password, req[r].hashed)
    /\ req[r].pc = "session"
        => UserRow(req[r].user.id, req[r].user) \in users
    /\ Succeeded(r)
        => /\ req[r].ops = SignupOrder
           /\ SessionGet(req[r].reply.session) # NoUser
           /\ SessionGet(req[r].reply.session).email = req[r].body.email

C9_Effect ==
    /\ users' # users
        => \E r \in Reqs :
            /\ At(r, "signup", "create") /\ Acts(r)
            /\ ValidSignup(req[r].body)
            /\ comparePassword(req[r].body.password, req[r].hashed)
            /\ \E u \in users' :
                /\ users' = users \cup {u}
                /\ u.email = req[r].body.email
                /\ u.hashedPassword = req[r].hashed.hashed
    /\ sessions' # sessions
        => \E r \in Reqs :
            /\ req[r].pc = "session" /\ Acts(r)
            /\ req[r].kind = "signup" => ValidSignup(req[r].body)
            /\ UsersById(req[r].user.id) # {}
            /\ sessions' = sessions \cup
                 {[session_id |-> req'[r].reply.session, user_id |-> req[r].user.id]}

\* C9: a signup runs its steps in the order parse, terms, username, complexity,
\* connect, hash, account insert, session insert; the account row is added only
\* by a request that passed every check and holds the hash of its password, a
\* session row only for an account that is in the table, and a request that
\* fails a check returns before the hash and changes neither table
C9_SignupOrder ==
    /\ [](\A r \in Reqs : req[r].kind = "signup" => C9_Position(r))
    /\ [][C9_Effect]_vars

\* a signup went through all eight steps and holds its session
C9_Witness ==
    \E r \in Reqs :
        /\ req[r].kind = "signup"
        /\ Succeeded(r)
        /\ req[r].ops = SignupOrder
        /\ SessionGet(req[r].reply.session) # NoUser

\* C10: every signin answered "Invalid login credentials." has run the password
\* comparison, also when the lookup found no account
C10_CompareOnEveryRejection ==
    \A r \in Reqs :
        (/\ req[r].kind = "signin"
         /\ req[r].pc = "done"
         /\ req[r].reply.flash = "Invalid login credentials.")
        => \E i \in 1..Len(req[r].ops) : req[r].ops[i] = "comparePassword"

\* C11: a session row is added only by a request whose lookup found the
\* account with the request's email and whose password verifies against that
\* account's stored hash; the row is bound to that account and its token is the
\* one the request is answered with, so every token a signin is answered with
\* resolves to the account whose email and password it presented
C11_SessionOnlyAfterVerify ==
    /\ [](\A r \in Reqs :
            (req[r].kind = "signin" /\ Succeeded(r))
            => AccountOf(req[r].body, req[r].reply.session))
    /\ [][\A s \in sessions' \ sessions :
            \E r \in Reqs, u \in users :
                /\ req[r].pc = "session" /\ Acts(r)
                /\ u.id = s.user_id
                /\ u.email = req[r].body.email
                /\ comparePassword(req[r].body.password, UserOf(u).hashedPassword)
                /\ req[r].kind = "signin" => req[r].user = UserOf(u)
                /\ req'[r].reply.session = s.session_id]_vars

\* a signin with a wrong password was turned away at the comparison and a
\* signin with the right one holds a token of its own account
C11_Witness ==
    \E r1, r2 \in Reqs :
        /\ req[r1].kind = "signin" /\ Succeeded(r1)
        /\ AccountOf(req[r1].body, req[r1].reply.session)
        /\ req[r2].kind = "signin" /\ req[r2].pc = "done"
        /\ LastOp(r2) = "comparePassword"
        /\ req[r2].reply.session = NoToken

\* C12: no two rows of the sessions table hold the same token; no step removes
\* or changes a row of the table; and a token a request is answered with was in
\* no row before the request's insert and is bound by it to the request's account
C12_TokensUnique ==
    /\ [](\A s1, s2 \in sessions : s1.session_id = s2.session_id => s1 = s2)
    /\ [][/\ \A s \in sessions : s \in sessions'
          /\ \A r \in Reqs :
                (req[r].pc = "session" /\ Acts(r) /\ req'[r].reply.session # NoToken)
                => /\ SessionsById(req'[r].reply.session) = {}
                   /\ [session_id |-> req'[r].reply.session, user_id |-> req[r].user.id]
                        \in sessions']_vars

\* uuidv4 repeated a stored token: the insert was refused, the request was
\* turned away and the stored row still resolves
C12_Witness ==
    \E r \in Reqs :
        /\ req[r].pc = "done"
        /\ LastOp(r) = "sessions.create"
        /\ req[r].reply.session = NoToken
        /\ \E s \in sessions : SessionGet(s.session_id) # NoUser

\* C13: a token that resolves to an account resolves to the same account after
\* every step of a signup, a signin or a welcome request, and an account can
\* hold several session rows at once
C13_SessionsKept ==
    [][\A t \in Tokens :
        SessionGet(t) # NoUser => SessionGet(t)' = SessionGet(t)]_vars

\* an account holds two session rows, the one of its signup and the one of a
\* later signin, and both tokens resolve to it
C13_Witness ==
    \E u \in users :
        /\ Cardinality({s \in sessions : s.user_id = u.id}) = 2
        /\ \A s \in sessions : s.user_id = u.id => SessionGet(s.session_id) = UserOf(u)
        /\ \E r \in Reqs : req[r].kind = "signin" /\ Succeeded(r)

\* C14: every row of the users table stays in the table unchanged, with its id,
\* email, hashed password and terms flag, through every step of a signup, a
\* signin and a welcome request
C14_AccountsImmutable ==
    [][\A u \in users : u \in users']_vars

\* with an account in the table, a second signup with its email was turned
\* away and a welcome request rendered the account's page
C14_Witness ==
    \E r1, r2 \in Reqs :
        /\ req[r1].kind = "signup" /\ req[r1].pc = "done"
        /\ req[r1].reply.flash = "Account already exists."
        /\ req[r2].kind = "welcome" /\ req[r2].pc = "done"
        /\ req[r2].reply.status = "html"
        /\ \E u \in users : u.email = req[r2].reply.email /\ u.email = req[r1].body.email

\* C15: a signup request that ends in a rejection (a redirect back to /signup)
\* added no account: its insert into users did not succeed before the
\* handler went on to the rejection
C15_RejectedSignupAddsNothing ==
    \A r \in Reqs :
        (req[r].kind = "signup" /\ req[r].pc = "done"
            /\ req[r].reply.location = "/signup")
        => \A i \in 1..(Len(req[r].ops) - 1) : req[r].ops[i] # "users.create"

\* a signup body that parses and whose agreedToTerms is absent or not "on"
TermsMissing(body) ==
    /\ ParseOk(body)
    /\ ~("agreedToTerms" \in DOMAIN body /\ body.agreedToTerms = "on")

\* C16: a signup whose agreedToTerms is absent or not "on" is answered with
\* the terms rejection having run no store operation and leaves users and
\* sessions as they are; every row of users has agreeToTerms = TRUE
C16_TermsBeforeStore ==
    /\ [](\A u \in users : u.agreeToTerms = TRUE)
    /\ [](\A r \in Reqs :
            (req[r].kind = "signup" /\ TermsMissing(req[r].body))
            => /\ req[r].pc = "done"
               /\ req[r].reply.location = "/signup"
               /\ req[r].reply.flash = "You must agree to the terms to singn up."
               /\ req[r].reply.session = NoToken
               /\ req[r].ops = <<"parse", "terms">>)
    /\ [][\A r \in Reqs :
            (req'[r].kind = "signup" /\ TermsMissing(req'[r].body)
                /\ req'[r] # req[r])
            => users' = users /\ sessions' = sessions]_vars

\* a signup without the terms was turned away while the table holds an account
C16_Witness ==
    /\ users # {}
    /\ \E r \in Reqs :
        /\ req[r].kind = "signup" /\ TermsMissing(req[r].body)
        /\ req[r].pc = "done"
        /\ req[r].reply.flash = "You must agree to the terms to singn up."

\* C17: after every input event on the email or the password field, the
\* submit button is without the class "btn-disabled" only if the email value
\* passes checkUsername, the password value passes checkComplexity and both
\* values are non-empty; otherwise the button carries "btn-disabled"
C17_EnabledOnlyIfValid ==
    [][(form.loaded /\ form' # form)
        => \/ /\ Len(checkUsername(form'.email)) = 0
              /\ Len(checkComplexity(form'.password)) = 0
              /\ Len(form'.email) > 0
              /\ Len(form'.password) > 0
           \/ "btn-disabled" \in form'.classList]_vars

\* the button is enabled with a well-formed email and a password of 8
\* characters typed in
C17_Witness ==
    /\ form.loaded
    /\ "btn-disabled" \notin form.classList
    /\ MatchesEmailShape(form.email)
    /\ Len(form.password) >= 8

====
